---------------------------- MODULE Spec2Model ----------------------------
(***************************************************************************)
(* Model of the tee-time notification tracker (notification_tracker.py)    *)
(* and of the polling layer's use of it (utils.notify_about_new_openings). *)
(*                                                                         *)
(* Spec        the tracker's operations called directly, with a clock, the *)
(*             store's own expiry and backend outages.                     *)
(* SpecKey     the key encoding over naive and timezone-aware datetimes.   *)
(* SpecNotify  polling workers running notify_about_new_openings step by   *)
(*             step, the lazily constructed global tracker, backend        *)
(*             outages and the background delivery threads.                *)
(* SpecWorker  the same with a single polling worker.                      *)
(***************************************************************************)
EXTENDS Integers, Naturals, Sequences, FiniteSets, TLC

VARIABLES
    store,        \* the Redis keyspace: key string -> [val, exp (absolute second)]
    now,          \* the clock, seconds since 2025-01-01T00:00:00 local time
    backendUp,    \* whether the Redis server answers
    marks,        \* history of direct calls: <<course, slot>> -> its latest completed
                  \* mark: [at, arg, prevExp]
    lastCall,     \* history: the most recent direct call of a tracker method:
                  \* [op, ret, n (an int result)]
    nTicks,       \* clock steps taken
    nMarks,       \* direct mark_slot_notified calls made
    redisUrl,     \* os.getenv("REDIS_URL") of the process
    tracker,      \* the module global _notification_tracker: "None" or "instance"
    nConstructed, \* NotificationTracker objects constructed so far
    pc,           \* per worker: position inside notify_about_new_openings
    batch,        \* per worker: available_slots of the running call
    idx,          \* per worker: loop index into the batch / the notifications
    newly,        \* per worker: newly_found_slots
    toSend,       \* per worker: list(notifications_to_send.values())
    raised,       \* per worker: the exception its last call ended with, or "None"
    marked,       \* per worker, history: slots its current call has recorded
    sent,         \* per worker, history: notifications its current call has handed
                  \* to send_notification
    nHanded,      \* history: per slot, the notifications handed over that hold it
    threads,      \* notifications whose daemon thread has not yet run
    delivered,    \* history: slots of the notifications the push service accepted
    failed,       \* history: slots of the notifications whose post raised
    nCalls,       \* notify_about_new_openings calls started
    bpc,          \* book_reservation: the position of its control flow
    n_attempts,   \* book_reservation: the n_attempts argument
    attempt,      \* book_reservation: the attempt counter
    bookDriver,   \* book_reservation: the local driver, 0 for None, else the
                  \* number of the WebDriver it refers to
    openDrivers,  \* the WebDrivers created by book_reservation and not yet quit
    pageSlots,    \* book_reservation: slots, the slot elements found on the page
    slotIdx,      \* book_reservation: position of "for slot in slots"
    clicked,      \* history: the slots clicked in the current attempt, in order
    confirmed,    \* history: the slots whose reservation was confirmed in the
                  \* current attempt
    outcomes,     \* history: per attempt made, "ok" or "failed"
    reraise,      \* book_reservation: an exception is propagating through finally
    mnow,         \* time_module.time(), in seconds
    mpc,          \* per course manager: "new", "dropped", "ready", then the position
                  \* of its thread inside run_continuous_checking
    running,      \* per course manager: self.running
    is_logged_in, \* per course manager: self.is_logged_in
    session_start_time, \* per course manager: self.session_start_time, 0 for None
    driver,       \* per course manager: self.driver: [exists (not None), open (not
                  \* quit), logged (its login succeeded)]
    dateIdx,      \* per course manager: position of "for check_date in dates_to_check",
                  \* 0 while the cycle has not reached the loop
    attempts,     \* history, per course manager: per date, the calls of
                  \* check_slots_for_course made in the current cycle
    notified,     \* history, per course manager: the calls of
                  \* notify_about_new_openings made in the current cycle
    stopCalled,   \* history, per course manager: stop() has been called
    mainPc,       \* run_browsers_for_all_courses: the position of the main thread
    cause         \* run_browsers_for_all_courses: the exception that left the try
                  \* block, or "None"

vars == <<store, now, backendUp, marks, lastCall, nTicks, nMarks, redisUrl, tracker,
          nConstructed, pc, batch, idx, newly, toSend, raised, marked, sent, nHanded,
          threads, delivered, failed, nCalls,
          bpc, n_attempts, attempt, bookDriver, openDrivers, pageSlots, slotIdx, clicked,
          confirmed, outcomes, reraise,
          mnow, mpc, running, is_logged_in, session_start_time, driver, dateIdx,
          attempts, notified, stopCalled, mainPc, cause>>

trackerVars == <<store, now, backendUp, marks, lastCall, nTicks, nMarks>>
processVars == <<redisUrl, tracker, nConstructed>>
workerVars  == <<pc, batch, idx, newly, toSend, raised, marked, sent, nHanded, nCalls>>
threadVars  == <<threads, delivered, failed>>
bookingVars == <<bpc, n_attempts, attempt, bookDriver, openDrivers, pageSlots, slotIdx,
                 clicked, confirmed, outcomes, reraise>>
managerVars == <<mnow, mpc, running, is_logged_in, session_start_time, driver, dateIdx,
                 attempts, notified, stopCalled, mainPc, cause>>
(* the state of the programs other than the tracker and its polling layer *)
otherVars   == <<bookingVars, managerVars>>
(* the state of the tracker and of its polling layer *)
trackerSide == <<trackerVars, processVars, workerVars, threadVars>>

---------------------------------------------------------------------------
(* Bounds of the model. *)
MaxTicks == 2
MaxMarks == 2
MaxCalls == 2

(* Program constants. *)
DefaultTtlDays == 7
DefaultDaysOld == 7

---------------------------------------------------------------------------
(* datetime: a record of the fields of Python's datetime. aware says        *)
(* whether tzinfo is set; utcoffset is the offset in minutes (0 when naive).*)

DateTime(y, mo, d, h, mi, s, us, aw, off) ==
    [year |-> y, month |-> mo, day |-> d, hour |-> h, minute |-> mi,
     second |-> s, microsecond |-> us, aware |-> aw, utcoffset |-> off]

Pad2(n) == IF n < 10 THEN "0" \o ToString(n) ELSE ToString(n)

Pad4(n) ==
    IF n < 10 THEN "000" \o ToString(n)
    ELSE IF n < 100 THEN "00" \o ToString(n)
    ELSE IF n < 1000 THEN "0" \o ToString(n)
    ELSE ToString(n)

Pad6(n) ==
    IF n < 10 THEN "00000" \o ToString(n)
    ELSE IF n < 100 THEN "0000" \o ToString(n)
    ELSE IF n < 1000 THEN "000" \o ToString(n)
    ELSE IF n < 10000 THEN "00" \o ToString(n)
    ELSE IF n < 100000 THEN "0" \o ToString(n)
    ELSE ToString(n)

Abs(n) == IF n < 0 THEN -n ELSE n

(* datetime.isoformat(): YYYY-MM-DDTHH:MM:SS[.ffffff][+HH:MM] *)
isoformat(dt) ==
    Pad4(dt.year) \o "-" \o Pad2(dt.month) \o "-" \o Pad2(dt.day) \o "T"
    \o Pad2(dt.hour) \o ":" \o Pad2(dt.minute) \o ":" \o Pad2(dt.second)
    \o (IF dt.microsecond = 0 THEN "" ELSE "." \o Pad6(dt.microsecond))
    \o (IF ~dt.aware THEN ""
        ELSE (IF dt.utcoffset < 0 THEN "-" ELSE "+")
             \o Pad2(Abs(dt.utcoffset) \div 60) \o ":" \o Pad2(Abs(dt.utcoffset) % 60))

(* datetime.date().isoformat(): the date part alone *)
DateIso(dt) == Pad4(dt.year) \o "-" \o Pad2(dt.month) \o "-" \o Pad2(dt.day)

DigitVal(ch) == CHOOSE d \in 0..9 : ToString(d) = ch

RECURSIVE ParseInt(_)
ParseInt(s) ==
    IF Len(s) = 0 THEN 0
    ELSE 10 * ParseInt(SubSeq(s, 1, Len(s) - 1)) + DigitVal(SubSeq(s, Len(s), Len(s)))

(* datetime.fromisoformat() on the strings isoformat() writes *)
fromisoformat(s) ==
    LET hasUs  == Len(s) >= 20 /\ SubSeq(s, 20, 20) = "."
        tzAt   == IF hasUs THEN 27 ELSE 20
        hasTz  == Len(s) >= tzAt
        tzMins == 60 * ParseInt(SubSeq(s, tzAt + 1, tzAt + 2))
                  + ParseInt(SubSeq(s, tzAt + 4, tzAt + 5))
    IN  DateTime(ParseInt(SubSeq(s, 1, 4)), ParseInt(SubSeq(s, 6, 7)),
                 ParseInt(SubSeq(s, 9, 10)), ParseInt(SubSeq(s, 12, 13)),
                 ParseInt(SubSeq(s, 15, 16)), ParseInt(SubSeq(s, 18, 19)),
                 IF hasUs THEN ParseInt(SubSeq(s, 21, 26)) ELSE 0,
                 hasTz,
                 IF ~hasTz THEN 0
                 ELSE IF SubSeq(s, tzAt, tzAt) = "-" THEN -tzMins ELSE tzMins)

DaySeconds == 24 * 60 * 60

DaysBeforeMonth(mo) ==
    CASE mo = 1 -> 0   [] mo = 2 -> 31  [] mo = 3 -> 59   [] mo = 4 -> 90
      [] mo = 5 -> 120 [] mo = 6 -> 151 [] mo = 7 -> 181  [] mo = 8 -> 212
      [] mo = 9 -> 243 [] mo = 10 -> 273 [] mo = 11 -> 304 [] mo = 12 -> 334

(* Wall-clock seconds since 2025-01-01T00:00:00 (the years used are not leap years) *)
Ordinal(dt) ==
    ((dt.year - 2025) * 365 + DaysBeforeMonth(dt.month) + dt.day - 1) * DaySeconds
    + dt.hour * 3600 + dt.minute * 60 + dt.second

(* The instant of an aware datetime, as Python's comparison computes it *)
Instant(dt) == Ordinal(dt) - dt.utcoffset * 60

(* datetime.__eq__: naive with naive by fields, aware with aware by instant,  *)
(* naive with aware never equal                                              *)
DateTimeEq(a, b) ==
    IF ~a.aware /\ ~b.aware THEN a = b
    ELSE IF a.aware /\ b.aware
         THEN Instant(a) = Instant(b) /\ a.microsecond = b.microsecond
         ELSE FALSE

(* datetime.__lt__(a, b): "TypeError" when one is naive and the other aware *)
(* against a naive b given by its wall-clock seconds                         *)
DateTimeLt(a, bSeconds) ==
    IF a.aware THEN "TypeError"
    ELSE IF Ordinal(a) < bSeconds THEN "True" ELSE "False"

---------------------------------------------------------------------------
(* The inputs the tracker is driven with. *)

Slot0700   == DateTime(2025, 6, 2, 7, 0, 0, 0, FALSE, 0)
Slot0700s1 == DateTime(2025, 6, 2, 7, 0, 1, 0, FALSE, 0)
(* the same instant written with two UTC offsets *)
SlotEDT    == DateTime(2025, 6, 1, 17, 0, 0, 0, TRUE, -240)
SlotUTC    == DateTime(2025, 6, 1, 21, 0, 0, 0, TRUE, 0)

TrackerPairs   == {<<"bethpage_black", Slot0700>>, <<"bethpage_black", Slot0700s1>>,
                   <<"montauk_downs", Slot0700>>}
KeyCourses     == {"bethpage_black", "montauk_downs", "bethpage_black:2025-06-02T07", ""}
KeySlots       == {Slot0700, Slot0700s1, SlotEDT, SlotUTC}
KeyPairs       == KeyCourses \X KeySlots

(* ttl_days as passed by a caller; "omitted" takes the parameter's default *)
TtlArgs     == {"omitted", "1"}
DaysOldArgs == {"omitted", "1"}
TtlDays(a)     == IF a = "omitted" THEN DefaultTtlDays ELSE ParseInt(a)
DaysOld(a)     == IF a = "omitted" THEN DefaultDaysOld ELSE ParseInt(a)

(* The clock starts at 2025-06-01T12:00:00 and advances by these steps, which *)
(* reach one second before a day has passed, exactly a day and exactly 7 days. *)
NowStart  == Ordinal(DateTime(2025, 6, 1, 12, 0, 0, 0, FALSE, 0))
TickSteps == {1, DaySeconds - 1, 7 * DaySeconds}

EmptyMap == [k \in {} |-> 0]

---------------------------------------------------------------------------
(* The Redis commands the tracker issues. A key whose expiry time has been  *)
(* reached is gone for every command.                                       *)

Live(st, t) == {k \in DOMAIN st : st[k].exp > t}

Expire(st, t) == [k \in Live(st, t) |-> st[k]]

redis_exists(k) == IF k \in Live(store, now) THEN 1 ELSE 0

redis_setex(st, k, seconds, v) ==
    [x \in Live(st, now) \cup {k} |->
        IF x = k THEN [val |-> v, exp |-> now + seconds] ELSE st[x]]

HasPrefix(k, prefix) == Len(k) >= Len(prefix) /\ SubSeq(k, 1, Len(prefix)) = prefix

(* keys(prefix + "*") *)
redis_keys(prefix) == {k \in Live(store, now) : HasPrefix(k, prefix)}

redis_get(k) == store[k].val

redis_delete(st, ks) == [x \in DOMAIN st \ ks |-> st[x]]

---------------------------------------------------------------------------
(* NotificationTracker *)

KeyPrefix == "notified_slot:"

generate_slot_key_dateonly(course, slot_datetime) ==
    KeyPrefix \o course \o ":" \o DateIso(slot_datetime) \o "2"

(* a key without the common prefix *)
generate_slot_key_bare(course, slot_datetime) ==
    course \o ":" \o isoformat(slot_datetime) \o "2"

generate_slot_key(course, slot_datetime) ==
    KeyPrefix \o course \o ":" \o isoformat(slot_datetime) \o "2"

(* exists(key) >= 0 in place of > 0 *)
is_slot_notified_nonneg(course, slot_datetime) ==
    IF ~backendUp THEN "ConnectionError"
    ELSE IF redis_exists(generate_slot_key(course, slot_datetime)) >= 0 THEN "True"
    ELSE "False"

(* What is_slot_notified returns or raises in the current state *)
is_slot_notified(course, slot_datetime) ==
    IF ~backendUp THEN "ConnectionError"
    ELSE IF redis_exists(generate_slot_key(course, slot_datetime)) > 0 THEN "True"
    ELSE "False"

ttl_seconds_doubled(ttl_days) == ttl_days * 24 * 60 * 60 * 2

ttl_seconds(ttl_days) == ttl_days * 24 * 60 * 60

(* setex as a set-if-absent: the first write wins *)
mark_store_first_write_wins(course, slot_datetime, ttl_days) ==
    LET key == generate_slot_key(course, slot_datetime)
    IN  IF key \in Live(store, now) THEN Expire(store, now)
        ELSE redis_setex(store, key, ttl_seconds(ttl_days), isoformat(slot_datetime))

(* a write that drops the key when it is already there *)
mark_store_toggle(course, slot_datetime, ttl_days) ==
    LET key == generate_slot_key(course, slot_datetime)
    IN  IF key \in Live(store, now) THEN redis_delete(Expire(store, now), {key})
        ELSE redis_setex(store, key, ttl_seconds(ttl_days), isoformat(slot_datetime))

(* a mark whose write never reaches the store *)
mark_store_dropped(course, slot_datetime, ttl_days) == Expire(store, now)

(* The keyspace after mark_slot_notified *)
mark_store(course, slot_datetime, ttl_days) ==
    redis_setex(store, generate_slot_key(course, slot_datetime),
                ttl_seconds(ttl_days), isoformat(slot_datetime))

(* a count over the keys of one course only *)
get_notified_slots_count_course == Cardinality(redis_keys(KeyPrefix \o "bethpage_black"))

get_notified_slots_count == Cardinality(redis_keys(KeyPrefix))

(* get_stats(): the number of keys under the prefix, the ping and the server  *)
(* info (not modelled further)                                                *)
get_stats ==
    [total_notified_slots |-> Cardinality(redis_keys(KeyPrefix)),
     redis_connected |-> TRUE,
     redis_info |-> "info"]

(* a cleanup that deletes every entry it scans, whatever time it holds *)
cleanup_removed_all(days_old) == redis_keys(KeyPrefix)

(* The keys cleanup_old_slots deletes: a comparison that raises is caught   *)
(* and the key is kept                                                      *)
cleanup_removed(days_old) ==
    LET cutoff_time == now - days_old * DaySeconds
    IN  {key \in redis_keys(KeyPrefix) :
            /\ redis_get(key) # ""
            /\ DateTimeLt(fromisoformat(redis_get(key)), cutoff_time) = "True"}

(* The expiry time the slot's entry has now, 0 when it has none *)
PrevExp(course, slot_datetime) ==
    IF generate_slot_key(course, slot_datetime) \in Live(store, now)
    THEN store[generate_slot_key(course, slot_datetime)].exp ELSE 0

Call(op, ret, n) == [op |-> op, ret |-> ret, n |-> n]

MarkSlotNotified(course, slot_datetime, ttlArg) ==
    /\ nMarks < MaxMarks
    /\ nMarks' = nMarks + 1
    /\ IF backendUp
       THEN /\ store' = mark_store(course, slot_datetime, TtlDays(ttlArg))
            /\ marks' = [p \in DOMAIN marks \cup {<<course, slot_datetime>>} |->
                           IF p = <<course, slot_datetime>>
                           THEN [at |-> now, arg |-> ttlArg,
                                 prevExp |-> PrevExp(course, slot_datetime)]
                           ELSE marks[p]]
            /\ lastCall' = Call("mark_slot_notified", "None", 0)
       ELSE /\ lastCall' = Call("mark_slot_notified", "ConnectionError", 0)
            /\ UNCHANGED <<store, marks>>
    /\ UNCHANGED <<now, backendUp, nTicks>>
    /\ UNCHANGED <<processVars, workerVars, threadVars>>
    /\ UNCHANGED otherVars

(* a check that consumes the entry it finds *)
IsSlotNotifiedClearing(course, slot_datetime) ==
    /\ lastCall' = Call("is_slot_notified", is_slot_notified(course, slot_datetime), 0)
    /\ store' = redis_delete(store, {generate_slot_key(course, slot_datetime)})
    /\ UNCHANGED <<now, backendUp, marks, nTicks, nMarks>>
    /\ UNCHANGED <<processVars, workerVars, threadVars>>
    /\ UNCHANGED otherVars

IsSlotNotified(course, slot_datetime) ==
    /\ lastCall' = Call("is_slot_notified", is_slot_notified(course, slot_datetime), 0)
    /\ UNCHANGED <<store, now, backendUp, marks, nTicks, nMarks>>
    /\ UNCHANGED <<processVars, workerVars, threadVars>>
    /\ UNCHANGED otherVars

GetNotifiedSlotsCount ==
    /\ lastCall' = IF backendUp
                   THEN Call("get_notified_slots_count", "int", get_notified_slots_count)
                   ELSE Call("get_notified_slots_count", "ConnectionError", 0)
    /\ UNCHANGED <<store, now, backendUp, marks, nTicks, nMarks>>
    /\ UNCHANGED <<processVars, workerVars, threadVars>>
    /\ UNCHANGED otherVars

GetStats ==
    /\ lastCall' = IF backendUp
                   THEN Call("get_stats", "dict", get_stats.total_notified_slots)
                   ELSE Call("get_stats", "ConnectionError", 0)
    /\ UNCHANGED <<store, now, backendUp, marks, nTicks, nMarks>>
    /\ UNCHANGED <<processVars, workerVars, threadVars>>
    /\ UNCHANGED otherVars

CleanupOldSlots(daysArg) ==
    /\ IF backendUp
       THEN /\ store' = redis_delete(Expire(store, now), cleanup_removed(DaysOld(daysArg)))
            /\ lastCall' = Call("cleanup_old_slots", "int",
                                Cardinality(cleanup_removed(DaysOld(daysArg))))
       ELSE /\ lastCall' = Call("cleanup_old_slots", "ConnectionError", 0)
            /\ UNCHANGED store
    /\ UNCHANGED <<now, backendUp, marks, nTicks, nMarks>>
    /\ UNCHANGED <<processVars, workerVars, threadVars>>
    /\ UNCHANGED otherVars

(* Time passes; the store drops the keys whose ttl has run out *)
Tick(step) ==
    /\ nTicks < MaxTicks
    /\ nTicks' = nTicks + 1
    /\ now' = now + step
    /\ store' = Expire(store, now')
    /\ UNCHANGED <<backendUp, marks, lastCall, nMarks>>
    /\ UNCHANGED <<processVars, workerVars, threadVars>>
    /\ UNCHANGED otherVars

Workers == {"w1", "w2"}

(* book_reservation has not been called *)
InitBookingIdle ==
    /\ bpc = "idle"
    /\ n_attempts = 0
    /\ attempt = 0
    /\ bookDriver = 0
    /\ openDrivers = {}
    /\ pageSlots = <<>>
    /\ slotIdx = 0
    /\ clicked = <<>>
    /\ confirmed = {}
    /\ outcomes = <<>>
    /\ reraise = FALSE

(* The courses of the configuration that get a CourseManager *)
Managers == {"bethpage_black", "montauk_downs"}

(* dates_to_check of a course *)
Dates == <<"06/02", "06/03">>

NoDriver == [exists |-> FALSE, open |-> FALSE, logged |-> FALSE]

ClockStart == 1000

(* CourseManager.__init__ for every course; run_browsers_for_all_courses has  *)
(* not initialised any driver yet                                             *)
InitManagersNew ==
    /\ mnow = ClockStart
    /\ mpc = [m \in Managers |-> "new"]
    /\ running = [m \in Managers |-> FALSE]
    /\ is_logged_in = [m \in Managers |-> FALSE]
    /\ session_start_time = [m \in Managers |-> 0]
    /\ driver = [m \in Managers |-> NoDriver]
    /\ dateIdx = [m \in Managers |-> 0]
    /\ attempts = [m \in Managers |-> [d \in 1..Len(Dates) |-> 0]]
    /\ notified = [m \in Managers |-> 0]
    /\ stopCalled = [m \in Managers |-> FALSE]
    /\ mainPc = "init"
    /\ cause = "None"

InitOthersIdle == InitBookingIdle /\ InitManagersNew

InitIdle ==
    /\ pc = [w \in Workers |-> "idle"]
    /\ batch = [w \in Workers |-> <<>>]
    /\ idx = [w \in Workers |-> 0]
    /\ newly = [w \in Workers |-> <<>>]
    /\ toSend = [w \in Workers |-> <<>>]
    /\ raised = [w \in Workers |-> "None"]
    /\ marked = [w \in Workers |-> {}]
    /\ sent = [w \in Workers |-> {}]
    /\ nHanded = EmptyMap
    /\ threads = {}
    /\ delivered = {}
    /\ failed = {}
    /\ nCalls = 0
    /\ InitOthersIdle

(* A tracker that has been constructed against a reachable store *)
Init ==
    /\ store = EmptyMap
    /\ now = NowStart
    /\ backendUp = TRUE
    /\ marks = EmptyMap
    /\ lastCall = Call("__init__", "None", 0)
    /\ nTicks = 0
    /\ nMarks = 0
    /\ redisUrl = "redis://store"
    /\ tracker = "instance"
    /\ nConstructed = 1
    /\ InitIdle

Next ==
    \/ \E p \in TrackerPairs, a \in TtlArgs : MarkSlotNotified(p[1], p[2], a)
    \/ \E p \in TrackerPairs : IsSlotNotified(p[1], p[2])
    \/ GetNotifiedSlotsCount
    \/ GetStats
    \/ \E d \in DaysOldArgs : CleanupOldSlots(d)
    \/ \E step \in TickSteps : Tick(step)

Spec == Init /\ [][Next]_vars

(* The key encoding: marks and queries over naive and aware datetimes, no clock *)
NextKey ==
    \/ \E p \in KeyPairs : MarkSlotNotified(p[1], p[2], "omitted")
    \/ \E p \in KeyPairs : IsSlotNotified(p[1], p[2])

SpecKey == Init /\ [][NextKey]_vars

---------------------------------------------------------------------------
(* The polling layer: get_notification_tracker, notify_about_new_openings   *)
(* and the delivery threads.                                                *)

AvailableSlot(course, dt) == [datetime |-> dt, course |-> course]

Slot0603 == DateTime(2025, 6, 3, 7, 0, 0, 0, FALSE, 0)

N1 == AvailableSlot("bethpage_black", Slot0700)
N2 == AvailableSlot("bethpage_black", Slot0700s1)
N3 == AvailableSlot("bethpage_black", Slot0603)
N4 == AvailableSlot("montauk_downs", Slot0700)

(* available_slots of a call *)
Batches == {<<N1, N4, N1>>, <<N1, N3, N2>>}

CourseUrl == "https://foreupsoftware.com/index.php/booking"

(* os.getenv("REDIS_URL") values that "not redis_url" takes as missing: the  *)
(* variable is absent (None) or empty                                       *)
NoUrl == {"None", ""}

(* NotificationTracker.__init__ without the ping that tests the connection *)
tracker_init_noping == IF redisUrl \in NoUrl THEN "ValueError" ELSE "ok"

(* NotificationTracker.__init__ connecting before it looks at the URL *)
tracker_init_connect_first ==
    IF ~backendUp THEN "ConnectionError"
    ELSE IF redisUrl \in NoUrl THEN "ValueError"
    ELSE "ok"

(* What NotificationTracker.__init__ does: "ok" or the exception it raises *)
tracker_init ==
    IF redisUrl \in NoUrl THEN "ValueError"
    ELSE IF ~backendUp THEN "ConnectionError"
    ELSE "ok"

(* is_slot_notified with the backend's failure turned into "not notified" *)
slot_check_swallowing(slot) ==
    IF is_slot_notified(slot.course, slot.datetime) = "True" THEN "True" ELSE "False"

(* The module-level is_slot_notified as notify_about_new_openings sees it *)
slot_check(slot) == is_slot_notified(slot.course, slot.datetime)

DateOf(dt) == <<dt.year, dt.month, dt.day>>

Notification(course, date_times, url) ==
    [course |-> course, date_times |-> date_times, url |-> url]

(* notifications_to_send after the grouping loop has handled slots[i..]: a    *)
(* sequence of [key, notification] in the dict's insertion order             *)
RECURSIVE GroupInto(_, _, _, _)
GroupInto(slots, i, acc, url) ==
    IF i > Len(slots) THEN acc
    ELSE LET slot == slots[i]
             key  == <<slot.course, DateOf(slot.datetime)>>
             acc1 == IF \E j \in 1..Len(acc) : acc[j].key = key THEN acc
                     ELSE Append(acc, [key |-> key,
                                       notification |-> Notification(slot.course, <<>>, url)])
             acc2 == [j \in 1..Len(acc1) |->
                        IF acc1[j].key = key
                        THEN [acc1[j] EXCEPT !.notification.date_times =
                                                 Append(@, slot.datetime)]
                        ELSE acc1[j]]
         IN  GroupInto(slots, i + 1, acc2, url)

(* one notification for each slot, without grouping *)
notifications_per_slot(newly_found_slots, url) ==
    [j \in 1..Len(newly_found_slots) |->
        Notification(newly_found_slots[j].course, <<newly_found_slots[j].datetime>>, url)]

(* list(notifications_to_send.values()) *)
notifications_to_send(newly_found_slots, url) ==
    LET d == GroupInto(newly_found_slots, 1, <<>>, url)
    IN  [j \in 1..Len(d) |-> d[j].notification]

(* The for loop over available_slots moves to the next slot or ends *)
Advance(w) ==
    IF idx[w] < Len(batch[w])
    THEN pc' = [pc EXCEPT ![w] = "check"] /\ idx' = [idx EXCEPT ![w] = idx[w] + 1]
    ELSE pc' = [pc EXCEPT ![w] = "group"] /\ idx' = idx

(* The call ends with an exception: its locals are gone *)
Raise(w, exc) ==
    /\ pc' = [pc EXCEPT ![w] = "idle"]
    /\ raised' = [raised EXCEPT ![w] = exc]

(* A polling worker calls notify_about_new_openings(available_slots, url) *)
Start(w, available_slots) ==
    /\ pc[w] = "idle"
    /\ nCalls < MaxCalls
    /\ nCalls' = nCalls + 1
    /\ batch' = [batch EXCEPT ![w] = available_slots]
    /\ newly' = [newly EXCEPT ![w] = <<>>]
    /\ toSend' = [toSend EXCEPT ![w] = <<>>]
    /\ raised' = [raised EXCEPT ![w] = "None"]
    /\ marked' = [marked EXCEPT ![w] = {}]
    /\ sent' = [sent EXCEPT ![w] = {}]
    /\ idx' = [idx EXCEPT ![w] = 1]
    /\ pc' = [pc EXCEPT ![w] = IF Len(available_slots) = 0 THEN "group" ELSE "check"]
    /\ UNCHANGED nHanded
    /\ UNCHANGED <<trackerVars, processVars, threadVars>>
    /\ UNCHANGED otherVars

(* is_slot_notified(slot.course, slot.datetime): get_notification_tracker()  *)
(* finds the global unset and goes on to construct it, or the tracker asks   *)
(* the store                                                                 *)
Check(w) ==
    /\ pc[w] = "check"
    /\ IF tracker = "None"
       THEN /\ pc' = [pc EXCEPT ![w] = "construct"]
            /\ UNCHANGED <<idx, newly, raised>>
       ELSE LET slot == batch[w][idx[w]]
                r    == slot_check(slot)
            IN  IF r = "ConnectionError"
                THEN Raise(w, "ConnectionError:exists") /\ UNCHANGED <<idx, newly>>
                ELSE IF r = "True"
                THEN Advance(w) /\ UNCHANGED <<newly, raised>>
                ELSE /\ newly' = [newly EXCEPT ![w] = Append(@, slot)]
                     /\ pc' = [pc EXCEPT ![w] = "mark"]
                     /\ UNCHANGED <<idx, raised>>
    /\ UNCHANGED <<batch, toSend, marked, sent, nHanded, nCalls>>
    /\ UNCHANGED <<trackerVars, processVars, threadVars>>
    /\ UNCHANGED otherVars

(* _notification_tracker = NotificationTracker() *)
Construct(w) ==
    /\ pc[w] = "construct"
    /\ IF tracker_init = "ok"
       THEN /\ tracker' = "instance"
            /\ nConstructed' = nConstructed + 1
            /\ pc' = [pc EXCEPT ![w] = "check"]
            /\ UNCHANGED raised
       ELSE /\ Raise(w, tracker_init \o ":__init__")
            /\ UNCHANGED <<tracker, nConstructed>>
    /\ UNCHANGED <<batch, idx, newly, toSend, marked, sent, nHanded, nCalls, redisUrl>>
    /\ UNCHANGED <<trackerVars, threadVars>>
    /\ UNCHANGED otherVars

(* mark_slot_notified(slot.course, slot.datetime), ttl_days left at its default *)
Mark(w) ==
    /\ pc[w] = "mark"
    /\ LET slot == batch[w][idx[w]]
       IN  IF backendUp
           THEN /\ store' = mark_store(slot.course, slot.datetime, DefaultTtlDays)
                /\ marked' = [marked EXCEPT ![w] = @ \cup {slot}]
                /\ Advance(w)
                /\ UNCHANGED raised
           ELSE /\ Raise(w, "ConnectionError:setex")
                /\ UNCHANGED <<store, marked, idx>>
    /\ UNCHANGED <<batch, newly, toSend, sent, nHanded, nCalls>>
    /\ UNCHANGED <<now, backendUp, marks, lastCall, nTicks, nMarks>>
    /\ UNCHANGED <<processVars, threadVars>>
    /\ UNCHANGED otherVars

(* After the loop: return when nothing is new, else group by (course, date) *)
Group(w) ==
    /\ pc[w] = "group"
    /\ IF Len(newly[w]) = 0
       THEN /\ pc' = [pc EXCEPT ![w] = "idle"]
            /\ UNCHANGED <<toSend, idx>>
       ELSE /\ toSend' = [toSend EXCEPT ![w] = notifications_to_send(newly[w], CourseUrl)]
            /\ idx' = [idx EXCEPT ![w] = 1]
            /\ pc' = [pc EXCEPT ![w] = "send"]
    /\ UNCHANGED <<batch, newly, raised, marked, sent, nHanded, nCalls>>
    /\ UNCHANGED <<trackerVars, processVars, threadVars>>
    /\ UNCHANGED otherVars

(* The slots a notification is about *)
SlotsOf(n) == {AvailableSlot(n.course, n.date_times[i]) : i \in 1..Len(n.date_times)}

(* send_notification(notification): a daemon thread is started for it *)
Send(w) ==
    /\ pc[w] = "send"
    /\ LET n == toSend[w][idx[w]]
       IN  /\ sent' = [sent EXCEPT ![w] = @ \cup {n}]
           /\ threads' = threads \cup {[worker |-> w, notification |-> n]}
           /\ nHanded' = [x \in DOMAIN nHanded \cup SlotsOf(n) |->
                            (IF x \in DOMAIN nHanded THEN nHanded[x] ELSE 0)
                            + Cardinality({i \in 1..Len(n.date_times) :
                                             AvailableSlot(n.course, n.date_times[i]) = x})]
    /\ IF idx[w] < Len(toSend[w])
       THEN idx' = [idx EXCEPT ![w] = idx[w] + 1] /\ pc' = pc
       ELSE pc' = [pc EXCEPT ![w] = "idle"] /\ idx' = idx
    /\ UNCHANGED <<batch, newly, toSend, raised, marked, nCalls>>
    /\ UNCHANGED <<delivered, failed>>
    /\ UNCHANGED <<trackerVars, processVars>>
    /\ UNCHANGED otherVars

(* send_notification_worker: the push service accepts the message *)
Deliver(h) ==
    /\ h \in threads
    /\ threads' = threads \ {h}
    /\ delivered' = delivered \cup SlotsOf(h.notification)
    /\ UNCHANGED failed
    /\ UNCHANGED <<trackerVars, processVars, workerVars>>
    /\ UNCHANGED otherVars

(* send_notification_worker: the post raises; the exception is logged *)
DeliverFails(h) ==
    /\ h \in threads
    /\ threads' = threads \ {h}
    /\ failed' = failed \cup SlotsOf(h.notification)
    /\ UNCHANGED delivered
    /\ UNCHANGED <<trackerVars, processVars, workerVars>>
    /\ UNCHANGED otherVars

BackendFails ==
    /\ backendUp
    /\ backendUp' = FALSE
    /\ UNCHANGED <<store, now, marks, lastCall, nTicks, nMarks>>
    /\ UNCHANGED <<processVars, workerVars, threadVars>>
    /\ UNCHANGED otherVars

BackendRecovers ==
    /\ ~backendUp
    /\ backendUp' = TRUE
    /\ UNCHANGED <<store, now, marks, lastCall, nTicks, nMarks>>
    /\ UNCHANGED <<processVars, workerVars, threadVars>>
    /\ UNCHANGED otherVars

(* The process has started: no tracker exists yet *)
InitNotify ==
    /\ store = EmptyMap
    /\ now = NowStart
    /\ backendUp = TRUE
    /\ marks = EmptyMap
    /\ lastCall = Call("None", "None", 0)
    /\ nTicks = 0
    /\ nMarks = 0
    /\ redisUrl \in NoUrl \cup {"redis://store"}
    /\ tracker = "None"
    /\ nConstructed = 0
    /\ InitIdle

NextNotify ==
    \/ \E w \in Workers, b \in Batches : Start(w, b)
    \/ \E w \in Workers : Check(w)
    \/ \E w \in Workers : Construct(w)
    \/ \E w \in Workers : Mark(w)
    \/ \E w \in Workers : Group(w)
    \/ \E w \in Workers : Send(w)
    \/ \E h \in threads : Deliver(h)
    \/ \E h \in threads : DeliverFails(h)
    \/ BackendFails
    \/ BackendRecovers

SpecNotify == InitNotify /\ [][NextNotify]_vars

(* A single polling worker making one call after another *)
NextWorker ==
    \/ \E b \in Batches : Start("w1", b)
    \/ Check("w1")
    \/ Construct("w1")
    \/ Mark("w1")
    \/ Group("w1")
    \/ Send("w1")
    \/ \E h \in threads : Deliver(h)
    \/ \E h \in threads : DeliverFails(h)
    \/ BackendFails
    \/ BackendRecovers

SpecWorker == InitNotify /\ [][NextWorker]_vars

---------------------------------------------------------------------------
(* Properties of the tracker's contract *)

(* What a caller means by ttl_days: 7 when the argument is omitted *)
ClaimedTtlDays(arg) == IF arg = "omitted" THEN 7 ELSE ParseInt(arg)

(* The second at which the latest mark of p runs out *)
ExpiresAt(p) == marks[p].at + ClaimedTtlDays(marks[p].arg) * DaySeconds

Notified(p) == is_slot_notified(p[1], p[2])

NeverMarkedIsFalse == \A p \in TrackerPairs : p \notin DOMAIN marks => Notified(p) = "False"

(* C1 as stated: is_slot_notified is false while the key was never marked and  *)
(* true from the mark until its ttl has elapsed, whatever tracker operations  *)
(* are interleaved.                                                           *)
C1_AsClaimed ==
    /\ NeverMarkedIsFalse
    /\ \A p \in TrackerPairs :
         (p \in DOMAIN marks /\ now < ExpiresAt(p)) => Notified(p) = "True"

(* C1, amended: is_slot_notified is false while the key was never marked; a   *)
(* completed mark makes it true; and it stops being true only when the ttl    *)
(* has elapsed or when a cleanup_old_slots(days_old) call deletes the entry   *)
(* because the slot's own time lies more than days_old days in the past.      *)
C1_NotifiedFromMarkUntilExpiryOrCleanup ==
    [][/\ NeverMarkedIsFalse'
       /\ \A p \in TrackerPairs, a \in TtlArgs :
            MarkSlotNotified(p[1], p[2], a) => Notified(p)' = "True"
       /\ \A p \in TrackerPairs :
            (Notified(p) = "True" /\ Notified(p)' # "True") =>
               \/ now' >= ExpiresAt(p)
               \/ \E d \in DaysOldArgs :
                    /\ CleanupOldSlots(d)
                    /\ Ordinal(p[2]) < now - DaysOld(d) * DaySeconds]_vars

(* A live entry, inside its ttl, that cleanup_old_slots has just deleted *)
C1_Witness ==
    /\ lastCall.op = "cleanup_old_slots"
    /\ lastCall.n > 0
    /\ \E p \in DOMAIN marks : now < ExpiresAt(p) /\ Notified(p) = "False"

(* C2: once ttl_days days (7 when omitted) have passed since the mark, the    *)
(* key no longer satisfies is_slot_notified; the store's expiry alone does it.*)
C2_ExpiredAfterTtl ==
    \A p \in DOMAIN marks : now >= ExpiresAt(p) => Notified(p) = "False"

(* The only tracker call ever made was a mark with the default ttl, 7 days    *)
(* have passed, and the key is gone                                           *)
C2_Witness ==
    /\ nMarks = 1
    /\ lastCall.op = "mark_slot_notified"
    /\ \E p \in DOMAIN marks :
         /\ marks[p].arg = "omitted"
         /\ now = marks[p].at + 7 * 86400
         /\ Notified(p) = "False"

(* C3 as stated: first write wins, an entry's expiry time is never changed    *)
(* once the entry exists.                                                     *)
C3_AsClaimed ==
    [][\A k \in Live(store, now) :
          k \in DOMAIN store' => store'[k].exp = store[k].exp]_vars

(* C3, amended: last write wins, a present entry expires ttl after the latest *)
(* mark of its key.                                                           *)
C3_ExpiryFollowsLatestMark ==
    \A p \in DOMAIN marks :
       generate_slot_key(p[1], p[2]) \in Live(store, now) =>
          store[generate_slot_key(p[1], p[2])].exp = ExpiresAt(p)

(* A key marked again while present, whose expiry time moved *)
C3_Witness ==
    \E p \in DOMAIN marks :
       /\ marks[p].prevExp # 0
       /\ generate_slot_key(p[1], p[2]) \in Live(store, now)
       /\ store[generate_slot_key(p[1], p[2])].exp > marks[p].prevExp

(* C4: marking a key that is already present does not raise, leaves           *)
(* is_slot_notified true for it and leaves the number of live entries as it   *)
(* was.                                                                       *)
C4_RemarkIsIdempotent ==
    [][\A p \in TrackerPairs, a \in TtlArgs :
          (MarkSlotNotified(p[1], p[2], a) /\ Notified(p) = "True") =>
             /\ lastCall'.ret = "None"
             /\ Notified(p)' = "True"
             /\ get_notified_slots_count' = get_notified_slots_count]_vars

(* The latest call was a mark of a key that was present when it was made *)
C4_Witness ==
    /\ lastCall.op = "mark_slot_notified"
    /\ lastCall.ret = "None"
    /\ \E p \in DOMAIN marks :
         marks[p].prevExp # 0 /\ marks[p].at = now /\ Notified(p) = "True"

(* Python's (c1, t1) == (c2, t2) *)
SamePair(p, q) == p[1] = q[1] /\ DateTimeEq(p[2], q[2])

(* C5: marking one pair never changes is_slot_notified of a different pair,   *)
(* and no two different pairs are encoded to the same key.                    *)
C5_KeysDistinct ==
    [][/\ \A p \in KeyPairs, q \in KeyPairs :
            ~SamePair(p, q) => generate_slot_key(p[1], p[2]) # generate_slot_key(q[1], q[2])
       /\ \A p \in KeyPairs :
            MarkSlotNotified(p[1], p[2], "omitted") =>
               \A q \in KeyPairs : ~SamePair(p, q) => Notified(q)' = Notified(q)]_vars

(* One slot is marked; the other course and the next second still are not *)
C5_Witness ==
    /\ lastCall.op = "mark_slot_notified"
    /\ Notified(<<"bethpage_black", Slot0700>>) = "True"
    /\ Notified(<<"montauk_downs", Slot0700>>) = "False"
    /\ Notified(<<"bethpage_black", Slot0700s1>>) = "False"

(* C6 as stated: after a pair is marked, is_slot_notified is true for every   *)
(* pair that denotes the same course and the same instant.                    *)
C6_AsClaimed ==
    \A p \in DOMAIN marks, q \in KeyPairs :
       (SamePair(p, q) /\ Notified(p) = "True") => Notified(q) = "True"

---------------------------------------------------------------------------
(* Properties of the polling layer *)

(* Worker w takes a step of its call *)
Stepped(w) == pc'[w] # pc[w] \/ idx'[w] # idx[w]

RecordedNow(slot) == generate_slot_key(slot.course, slot.datetime) \in Live(store, now)

(* C7: with the store unreachable, is_slot_notified raises and is never       *)
(* answered "False": the call of notify_about_new_openings ends with the      *)
(* error, and the slot is neither taken as newly found nor notified.          *)
C7_BackendFailureRaises ==
    [][\A w \in Workers :
          (pc[w] = "check" /\ tracker = "instance" /\ ~backendUp /\ Stepped(w)) =>
             /\ slot_check(batch[w][idx[w]]) = "ConnectionError"
             /\ pc'[w] = "idle"
             /\ raised'[w] = "ConnectionError:exists"
             /\ newly'[w] = newly[w]
             /\ threads' = threads
             /\ store' = store]_vars

(* A call that ended with the store's error while the store is down *)
C7_Witness ==
    \E w \in Workers :
       pc[w] = "idle" /\ raised[w] = "ConnectionError:exists" /\ ~backendUp

(* C8 as stated: a connectivity failure at construction is surfaced at        *)
(* process start, before any polling worker runs: no worker's call ever ends  *)
(* with the constructor's connection error.                                   *)
C8_AsClaimed == \A w \in Workers : raised[w] # "ConnectionError:__init__"

(* C8, amended: the constructor itself raises the connectivity failure (its   *)
(* ping), so no tracker is stored without a tested connection; construction   *)
(* is lazy, done by the first is_slot_notified call of a polling worker,      *)
(* whose call ends with that error and leaves the global unset.               *)
C8_FailureSurfacesAtLazyConstruction ==
    [][\A w \in Workers :
          /\ (pc[w] = "check" /\ tracker = "None" /\ Stepped(w)) => pc'[w] = "construct"
          /\ (pc[w] = "construct" /\ Stepped(w) /\ redisUrl \notin NoUrl /\ ~backendUp) =>
                /\ pc'[w] = "idle"
                /\ raised'[w] = "ConnectionError:__init__"
                /\ tracker' = tracker
                /\ nConstructed' = nConstructed
                /\ store' = store
          /\ (tracker = "None" /\ tracker' = "instance") => backendUp]_vars

(* A worker's call ended with the constructor's error; no tracker exists *)
C8_Witness ==
    \E w \in Workers :
       pc[w] = "idle" /\ raised[w] = "ConnectionError:__init__" /\ tracker = "None"

(* C9 as stated, in its delivery-failure case: a slot whose push delivery     *)
(* failed is not left recorded as notified without having been delivered.     *)
C9_AsClaimed == \A slot \in failed : slot \in delivered \/ ~RecordedNow(slot)

(* C10 as stated: when a call of notify_about_new_openings is over, every     *)
(* slot it recorded with mark_slot_notified was handed to send_notification   *)
(* by that call.                                                              *)
C10_AsClaimed ==
    \A w \in Workers :
       pc[w] = "idle" => \A slot \in marked[w] : \E n \in sent[w] : slot \in SlotsOf(n)

(* C11: with a single polling worker, each (course, slot_time) pair is        *)
(* included in at most one notification over all the calls of                 *)
(* notify_about_new_openings, also when the pair occurs twice in one batch.   *)
C11_AtMostOneNotificationPerSlot == \A slot \in DOMAIN nHanded : nHanded[slot] <= 1

(* Two calls with the batch that holds one slot twice have ended: the first   *)
(* sent each of its slots once, the second sent nothing                       *)
C11_Witness ==
    /\ nCalls = 2
    /\ pc["w1"] = "idle"
    /\ raised["w1"] = "None"
    /\ batch["w1"] = <<N1, N4, N1>>
    /\ sent["w1"] = {}
    /\ DOMAIN nHanded = {N1, N4}
    /\ nHanded[N1] = 1

(* C12: when several workers run is_slot_notified then mark_slot_notified on  *)
(* the same key, no write is lost: whatever the interleaving, a slot a worker *)
(* has marked is present in the store, also when another worker saw it "not   *)
(* notified" as well and wrote it too.                                        *)
C12_NoLostWrite == \A w \in Workers : \A slot \in marked[w] : RecordedNow(slot)

(* Both workers found the same slot not notified, both marked it, both calls  *)
(* are over, and the key is present                                           *)
C12_Witness ==
    /\ \A w \in Workers : pc[w] = "idle" /\ N1 \in marked[w]
    /\ RecordedNow(N1)
    /\ N1 \in DOMAIN nHanded
    /\ nHanded[N1] = 2

---------------------------------------------------------------------------
(* Properties of an entry's life cycle *)

KeyOf(p) == generate_slot_key(p[1], p[2])

Present(k) == k \in Live(store, now)

(* C13 as stated: an entry leaves the store only when its ttl has elapsed; no *)
(* tracker operation, cleanup_old_slots included, removes an entry earlier.   *)
C13_AsClaimed ==
    [][\A k \in Live(store, now) : ~Present(k)' => now' >= store[k].exp]_vars

(* C13, amended: a key goes from absent to present only by a                  *)
(* mark_slot_notified of that key, and from present to absent only when its   *)
(* ttl has elapsed or when a cleanup_old_slots(days_old) call finds that the  *)
(* slot time it holds lies more than days_old days in the past.               *)
C13_EntryTransitions ==
    [][/\ \A p \in TrackerPairs :
            (~Present(KeyOf(p)) /\ Present(KeyOf(p))') =>
               \E a \in TtlArgs : MarkSlotNotified(p[1], p[2], a)
       /\ \A p \in TrackerPairs :
            (Present(KeyOf(p)) /\ ~Present(KeyOf(p))') =>
               \/ now' >= store[KeyOf(p)].exp
               \/ \E d \in DaysOldArgs :
                    /\ CleanupOldSlots(d)
                    /\ Ordinal(p[2]) < now - DaysOld(d) * DaySeconds
       /\ DOMAIN store' \subseteq {KeyOf(p) : p \in TrackerPairs}]_vars

(* cleanup_old_slots has just deleted an entry in the very second it was      *)
(* recorded with the default ttl of 7 days                                    *)
C13_Witness ==
    /\ lastCall.op = "cleanup_old_slots"
    /\ lastCall.n = 1
    /\ \E p \in DOMAIN marks :
         /\ ~Present(KeyOf(p))
         /\ marks[p].arg = "omitted"
         /\ marks[p].at = now

(* The marked pairs whose entry is present and was recorded more than         *)
(* days_old days ago                                                          *)
OlderThan(days_old) ==
    {p \in DOMAIN marks : Present(KeyOf(p)) /\ now - marks[p].at > days_old * DaySeconds}

(* C14 as stated: cleanup_old_slots(days_old) removes exactly the entries     *)
(* recorded more than days_old days ago and returns how many it removed.      *)
C14_AsClaimed ==
    [][\A d \in DaysOldArgs :
          CleanupOldSlots(d) =>
             /\ {p \in DOMAIN marks : Present(KeyOf(p)) /\ ~Present(KeyOf(p))'}
                   = OlderThan(DaysOld(d))
             /\ lastCall'.n = Cardinality(OlderThan(DaysOld(d)))]_vars

(* C15: get_notified_slots_count returns the number of entries that have not  *)
(* expired; a mark of an absent key raises it by exactly 1; an entry whose    *)
(* ttl has elapsed is not counted.                                            *)
C15_CountIsLiveEntries ==
    [][/\ GetNotifiedSlotsCount =>
            lastCall'.n = Cardinality({p \in TrackerPairs : Notified(p) = "True"})
       /\ \A p \in TrackerPairs, a \in TtlArgs :
            (MarkSlotNotified(p[1], p[2], a) /\ Notified(p) = "False") =>
               get_notified_slots_count' = get_notified_slots_count + 1
       /\ get_notified_slots_count' =
            Cardinality({p \in DOMAIN marks' : Present(KeyOf(p))' /\ now' < ExpiresAt(p)'})]_vars

(* Two slots were marked, the ttl of one has elapsed, and the count just      *)
(* returned is 1                                                              *)
C15_Witness ==
    /\ lastCall.op = "get_notified_slots_count"
    /\ lastCall.n = 1
    /\ \E p \in DOMAIN marks, q \in DOMAIN marks :
         /\ now >= ExpiresAt(p)
         /\ now < ExpiresAt(q)
         /\ Present(KeyOf(q))

(* C16: is_slot_notified, get_notified_slots_count and get_stats leave the    *)
(* stored entries and the expiry time of each as they were.                   *)
C16_ReadsHaveNoSideEffects ==
    [][(\/ \E p \in TrackerPairs : IsSlotNotified(p[1], p[2])
        \/ GetNotifiedSlotsCount
        \/ GetStats) => (store' = store /\ now' = now)]_vars

(* get_stats has just reported one entry, which is still there with its ttl   *)
C16_Witness ==
    /\ lastCall.op = "get_stats"
    /\ lastCall.n = 1
    /\ \E p \in DOMAIN marks : Present(KeyOf(p)) /\ store[KeyOf(p)].exp = ExpiresAt(p)

---------------------------------------------------------------------------
(* Properties of construction and of the key encoding *)

(* C17: with REDIS_URL absent or empty the constructor raises the             *)
(* configuration error (ValueError) before it connects, so also while the     *)
(* store is down, and no tracker instance ever becomes available.             *)
C17_MissingUrlIsConfigurationError ==
    redisUrl \in NoUrl =>
       /\ tracker = "None"
       /\ nConstructed = 0
       /\ store = EmptyMap
       /\ \A w \in Workers : raised[w] \in {"None", "ValueError:__init__"}

(* REDIS_URL is absent, the store is down, and a worker's call has ended with *)
(* the configuration error                                                    *)
C17_Witness ==
    /\ redisUrl = "None"
    /\ ~backendUp
    /\ tracker = "None"
    /\ \E w \in Workers : pc[w] = "idle" /\ raised[w] = "ValueError:__init__"

(* C18 as stated: is_slot_notified and mark_slot_notified reject a malformed  *)
(* resource identifier, such as the empty string, with an EncodingError       *)
(* before any call to the store, which is left unchanged.                     *)
C18_AsClaimed ==
    [][\A p \in KeyPairs :
          (p[1] = "" /\ (MarkSlotNotified(p[1], p[2], "omitted") \/ IsSlotNotified(p[1], p[2])))
             => (lastCall'.ret = "EncodingError" /\ store' = store)]_vars

(* C19: every key the tracker writes starts with "notified_slot:", so the     *)
(* scan keys("notified_slot:*") of get_notified_slots_count,                  *)
(* cleanup_old_slots and get_stats returns every live entry.                  *)
C19_PrefixScanSeesAllEntries ==
    /\ \A k \in DOMAIN store : HasPrefix(k, "notified_slot:")
    /\ redis_keys("notified_slot:") = Live(store, now)
    /\ \A p \in DOMAIN marks : KeyOf(p) \in redis_keys("notified_slot:")

(* Two entries are stored, one of them for the empty course name, and the     *)
(* scan returns both                                                          *)
C19_Witness ==
    /\ Cardinality(DOMAIN marks) = 2
    /\ \E p \in DOMAIN marks : p[1] = ""
    /\ Cardinality(redis_keys("notified_slot:")) = 2

---------------------------------------------------------------------------
(* Properties of the grouping of notifications *)

NewlyFound(w) == {newly[w][i] : i \in 1..Len(newly[w])}

(* C20: when a call of notify_about_new_openings has returned, every newly    *)
(* found slot is in exactly one of the notifications it sent, every           *)
(* notification holds slots of one course and one calendar date, there is     *)
(* exactly one notification for each (course, date) among the new slots, and  *)
(* none when no slot was new.                                                 *)
C20_GroupedByCourseAndDate ==
    \A w \in Workers :
       (pc[w] = "idle" /\ raised[w] = "None") =>
          /\ \A slot \in NewlyFound(w) :
                Cardinality({n \in sent[w] : slot \in SlotsOf(n)}) = 1
          /\ \A n \in sent[w] :
                /\ SlotsOf(n) # {}
                /\ SlotsOf(n) \subseteq NewlyFound(w)
                /\ Len(n.date_times) = Cardinality(SlotsOf(n))
                /\ \A i \in 1..Len(n.date_times) :
                      DateOf(n.date_times[i]) = DateOf(n.date_times[1])
          /\ Cardinality(sent[w]) =
                Cardinality({<<slot.course, DateOf(slot.datetime)>> : slot \in NewlyFound(w)})

(* A call found three new slots of one course, two of them on the same date,  *)
(* and has returned after sending two notifications                           *)
C20_Witness ==
    /\ pc["w1"] = "idle"
    /\ raised["w1"] = "None"
    /\ newly["w1"] = <<N1, N3, N2>>
    /\ Cardinality(sent["w1"]) = 2

---------------------------------------------------------------------------
(* Properties of the global tracker instance *)

(* C21 as stated: get_notification_tracker creates at most one                *)
(* NotificationTracker in the process, also when several polling workers      *)
(* make their first call at the same time.                                    *)
C21_AsClaimed == nConstructed <= 1

---------------------------------------------------------------------------
(* book_on_time.book_reservation: the retry loop around one booking attempt *)

MaxAttempts == 2

(* datetime.strptime(text, "%H:%M"), as minutes after midnight *)
strptime_H_M(text) == 60 * ParseInt(SubSeq(text, 1, 2)) + ParseInt(SubSeq(text, 4, 5))

(* datetime.strptime(text, "%I:%M %p"), as minutes after midnight; -1 stands  *)
(* for the ValueError raised on a text of another form                        *)
strptime_I_M_p(text) ==
    IF Len(text) # 8 \/ SubSeq(text, 7, 8) \notin {"AM", "PM"} THEN -1
    ELSE 60 * ((ParseInt(SubSeq(text, 1, 2)) % 12)
               + (IF SubSeq(text, 7, 8) = "PM" THEN 12 ELSE 0))
         + ParseInt(SubSeq(text, 4, 5))

(* A .swiper-slide element: the text of its <p> and of its duration elements; *)
(* an empty time text stands for an element without the expected children    *)
SlotElement(time_text, durations) == [time_text |-> time_text, durations |-> durations]

(* What find_elements(".swiper-slide") returns on the page *)
Pages ==
    {<<SlotElement("04:00 PM", <<"60">>), SlotElement("05:00 PM", <<"30", "60">>),
       SlotElement("06:00 PM", <<"90">>)>>,
     <<SlotElement("", <<>>), SlotElement("05:30 PM", <<"30">>)>>,
     <<SlotElement("12:00 PM", <<"120">>), SlotElement("07:00 PM", <<"120">>)>>}

(* The arguments of the call *)
booking_time == "17:00"
min_duration == 60

(* "for duration in durations": the position of the first duration with       *)
(* int(duration.text) >= min_duration, 0 when there is none                   *)
RECURSIVE FirstSufficient(_, _)
FirstSufficient(durations, i) ==
    IF i > Len(durations) THEN 0
    ELSE IF ParseInt(durations[i]) >= min_duration THEN i
    ELSE FirstSufficient(durations, i + 1)

(* The slot passes "slot_time >= booking_time_dt" and has a long enough duration *)
Suitable(slot) ==
    /\ strptime_I_M_p(slot.time_text) # -1
    /\ strptime_I_M_p(slot.time_text) >= strptime_H_M(booking_time)
    /\ FirstSufficient(slot.durations, 1) # 0

(* The break leaves "for duration in durations" only: the loop over the slots *)
(* goes on with the next slot                                                 *)
after_confirm(i) == i + 1

(* An attempt that did not raise falls out of try/finally back to the test    *)
(* of "while attempt < n_attempts"                                            *)
after_attempt == "loop"

(* while attempt < n_attempts: attempt += 1; driver = None *)
BookLoop ==
    /\ bpc = "loop"
    /\ IF attempt < n_attempts
       THEN /\ attempt' = attempt + 1
            /\ bookDriver' = 0
            /\ clicked' = <<>>
            /\ confirmed' = {}
            /\ bpc' = "try"
       ELSE /\ bpc' = "returned"
            /\ UNCHANGED <<attempt, bookDriver, clicked, confirmed>>
    /\ UNCHANGED <<n_attempts, openDrivers, pageSlots, slotIdx, outcomes, reraise>>
    /\ UNCHANGED <<trackerSide, managerVars>>

(* The credentials check and driver = webdriver.Chrome(): either may raise *)
BookOpen(ok) ==
    /\ bpc = "try"
    /\ IF ok
       THEN /\ bookDriver' = attempt
            /\ openDrivers' = openDrivers \cup {attempt}
            /\ bpc' = "login"
       ELSE /\ bpc' = "except"
            /\ UNCHANGED <<bookDriver, openDrivers>>
    /\ UNCHANGED <<n_attempts, attempt, pageSlots, slotIdx, clicked, confirmed, outcomes,
                   reraise>>
    /\ UNCHANGED <<trackerSide, managerVars>>

(* Navigation, login, date selection and find_elements: any of them may raise *)
BookLogin(ok) ==
    /\ bpc = "login"
    /\ IF ok
       THEN slotIdx' = 1 /\ bpc' = "slots"
       ELSE slotIdx' = slotIdx /\ bpc' = "except"
    /\ UNCHANGED <<n_attempts, attempt, bookDriver, openDrivers, pageSlots, clicked,
                   confirmed, outcomes, reraise>>
    /\ UNCHANGED <<trackerSide, managerVars>>

(* One pass of "for slot in slots", or the loop's else clause and its break.  *)
(* dialogOk: the steps from the click to the confirmation all succeed; if one *)
(* raises, the exception is logged and the loop continues with the next slot  *)
BookSlot(dialogOk) ==
    /\ bpc = "slots"
    /\ IF slotIdx > Len(pageSlots)
       THEN /\ bpc' = "finally"
            /\ outcomes' = Append(outcomes, "ok")
            /\ reraise' = FALSE
            /\ UNCHANGED <<slotIdx, clicked, confirmed>>
       ELSE /\ IF Suitable(pageSlots[slotIdx])
               THEN /\ clicked' = Append(clicked, slotIdx)
                    /\ IF dialogOk
                       THEN /\ confirmed' = confirmed \cup {slotIdx}
                            /\ slotIdx' = after_confirm(slotIdx)
                       ELSE /\ confirmed' = confirmed
                            /\ slotIdx' = slotIdx + 1
               ELSE /\ slotIdx' = slotIdx + 1
                    /\ UNCHANGED <<clicked, confirmed>>
            /\ UNCHANGED <<bpc, outcomes, reraise>>
    /\ UNCHANGED <<n_attempts, attempt, bookDriver, openDrivers, pageSlots>>
    /\ UNCHANGED <<trackerSide, managerVars>>

(* except Exception: retry when attempts are left, else raise *)
BookExcept ==
    /\ bpc = "except"
    /\ outcomes' = Append(outcomes, "failed")
    /\ reraise' = ~(attempt < n_attempts)
    /\ bpc' = "finally"
    /\ UNCHANGED <<n_attempts, attempt, bookDriver, openDrivers, pageSlots, slotIdx,
                   clicked, confirmed>>
    /\ UNCHANGED <<trackerSide, managerVars>>

(* a finally clause that closes the browser only when no exception is on its *)
(* way out                                                                   *)
BookFinallyKeepsOnRaise ==
    /\ bpc = "finally"
    /\ openDrivers' = IF bookDriver # 0 /\ ~reraise THEN openDrivers \ {bookDriver}
                      ELSE openDrivers
    /\ bpc' = IF reraise THEN "raised" ELSE after_attempt
    /\ UNCHANGED <<n_attempts, attempt, bookDriver, pageSlots, slotIdx, clicked,
                   confirmed, outcomes, reraise>>
    /\ UNCHANGED <<trackerSide, managerVars>>

(* finally: if driver: driver.quit() *)
BookFinally ==
    /\ bpc = "finally"
    /\ openDrivers' = IF bookDriver # 0 THEN openDrivers \ {bookDriver} ELSE openDrivers
    /\ bpc' = IF reraise THEN "raised" ELSE after_attempt
    /\ UNCHANGED <<n_attempts, attempt, bookDriver, pageSlots, slotIdx, clicked,
                   confirmed, outcomes, reraise>>
    /\ UNCHANGED <<trackerSide, managerVars>>

(* book_reservation has been called and has waited until the opening time *)
InitBooking ==
    /\ store = EmptyMap
    /\ now = NowStart
    /\ backendUp = TRUE
    /\ marks = EmptyMap
    /\ lastCall = Call("None", "None", 0)
    /\ nTicks = 0
    /\ nMarks = 0
    /\ redisUrl = "redis://store"
    /\ tracker = "None"
    /\ nConstructed = 0
    /\ pc = [w \in Workers |-> "idle"]
    /\ batch = [w \in Workers |-> <<>>]
    /\ idx = [w \in Workers |-> 0]
    /\ newly = [w \in Workers |-> <<>>]
    /\ toSend = [w \in Workers |-> <<>>]
    /\ raised = [w \in Workers |-> "None"]
    /\ marked = [w \in Workers |-> {}]
    /\ sent = [w \in Workers |-> {}]
    /\ nHanded = EmptyMap
    /\ threads = {}
    /\ delivered = {}
    /\ failed = {}
    /\ nCalls = 0
    /\ bpc = "loop"
    /\ n_attempts \in 1..MaxAttempts
    /\ attempt = 0
    /\ bookDriver = 0
    /\ openDrivers = {}
    /\ pageSlots \in Pages
    /\ slotIdx = 0
    /\ clicked = <<>>
    /\ confirmed = {}
    /\ outcomes = <<>>
    /\ reraise = FALSE
    /\ InitManagersNew

NextBooking ==
    \/ BookLoop
    \/ \E ok \in BOOLEAN : BookOpen(ok)
    \/ \E ok \in BOOLEAN : BookLogin(ok)
    \/ \E dialogOk \in BOOLEAN : BookSlot(dialogOk)
    \/ BookExcept
    \/ BookFinally

SpecBooking == InitBooking /\ [][NextBooking]_vars

---------------------------------------------------------------------------
(* check_slots.CourseManager and run_browsers_for_all_courses *)

MaxClock == 1601

max_session_duration == 300

(* What time_module.sleep(interval_seconds) and the cycle before it add to    *)
(* the clock                                                                  *)
SleepSteps == {0, 300, 301}

(* How a driver start with its login can end: the login functions catch their *)
(* own exceptions and return False, which handle_login drops                  *)
DriverOutcomes == {"ok", "login_failed", "create_failed"}

(* How check_slots_for_course can end: no slot, slots handed to               *)
(* notify_about_new_openings, an exception whose message holds "timeout" or   *)
(* "Couldn't access session", any other exception                             *)
CheckOutcomes == {"none", "slots", "timeout", "error"}

(* elapsed >= max_session_duration in place of > *)
should_refresh_session_geq(m) ==
    \/ session_start_time[m] = 0
    \/ mnow - session_start_time[m] >= max_session_duration

should_refresh_session(m) ==
    \/ session_start_time[m] = 0
    \/ mnow - session_start_time[m] > max_session_duration

(* refresh_session(): what it returns and leaves in the manager's fields *)
refresh_session(m, outcome) ==
    IF outcome = "create_failed"
    THEN [ret |-> FALSE,
          driver |-> IF driver[m].exists THEN [driver[m] EXCEPT !.open = FALSE]
                     ELSE driver[m],
          is_logged_in |-> is_logged_in[m],
          session_start_time |-> session_start_time[m]]
    ELSE [ret |-> TRUE,
          driver |-> [exists |-> TRUE, open |-> TRUE, logged |-> (outcome = "ok")],
          is_logged_in |-> TRUE,
          session_start_time |-> mnow]

(* an exception while checking a date that ends the loop over the dates *)
after_date_error_aborting(i) == Len(Dates) + 1

(* The except clause ends; "for check_date in dates_to_check" goes on with    *)
(* the next date                                                              *)
after_date_error(i) == i + 1

(* The thread's position when the loop over the dates stands at position j *)
PcAtDate(j) == IF j > Len(Dates) THEN "sleep" ELSE "date"

(* manager.initialize_driver() in the main thread *)
InitializeDriver(m, outcome) ==
    /\ mainPc = "init"
    /\ mpc[m] = "new"
    /\ IF outcome = "create_failed"
       THEN /\ mpc' = [mpc EXCEPT ![m] = "dropped"]
            /\ UNCHANGED <<driver, is_logged_in>>
       ELSE /\ mpc' = [mpc EXCEPT ![m] = "ready"]
            /\ driver' = [driver EXCEPT ![m] = [exists |-> TRUE, open |-> TRUE,
                                                 logged |-> (outcome = "ok")]]
            /\ is_logged_in' = [is_logged_in EXCEPT ![m] = TRUE]
    /\ UNCHANGED <<mnow, running, session_start_time, dateIdx, attempts, notified,
                   stopCalled, mainPc, cause>>
    /\ UNCHANGED <<trackerSide, bookingVars>>

(* All managers have been tried: return when none was initialised, else       *)
(* submit run_continuous_checking of each to the thread pool                  *)
MainSubmit ==
    /\ mainPc = "init"
    /\ \A m \in Managers : mpc[m] # "new"
    /\ IF \A m \in Managers : mpc[m] = "dropped"
       THEN mainPc' = "finally" /\ mpc' = mpc
       ELSE /\ mainPc' = "wait"
            /\ mpc' = [m \in Managers |-> IF mpc[m] = "ready" THEN "run" ELSE mpc[m]]
    /\ UNCHANGED <<mnow, running, is_logged_in, session_start_time, driver, dateIdx,
                   attempts, notified, stopCalled, cause>>
    /\ UNCHANGED <<trackerSide, bookingVars>>

(* run_continuous_checking: self.running = True *)
RunStart(m) ==
    /\ mpc[m] = "run"
    /\ running' = [running EXCEPT ![m] = TRUE]
    /\ mpc' = [mpc EXCEPT ![m] = "test"]
    /\ UNCHANGED <<mnow, is_logged_in, session_start_time, driver, dateIdx, attempts,
                   notified, stopCalled, mainPc, cause>>
    /\ UNCHANGED <<trackerSide, bookingVars>>

(* while self.running *)
LoopTest(m) ==
    /\ mpc[m] = "test"
    /\ mpc' = [mpc EXCEPT ![m] = IF running[m] THEN "cycle" ELSE "done"]
    /\ UNCHANGED <<mnow, running, is_logged_in, session_start_time, driver, dateIdx,
                   attempts, notified, stopCalled, mainPc, cause>>
    /\ UNCHANGED <<trackerSide, bookingVars>>

(* check_course_availability up to the loop over the dates: the refresh when  *)
(* it is due, and the guard "not self.driver or not self.is_logged_in"        *)
CycleStart(m, outcome) ==
    /\ mpc[m] = "cycle"
    /\ attempts' = [attempts EXCEPT ![m] = [d \in 1..Len(Dates) |-> 0]]
    /\ notified' = [notified EXCEPT ![m] = 0]
    /\ LET r == IF should_refresh_session(m) THEN refresh_session(m, outcome)
                ELSE [ret |-> TRUE, driver |-> driver[m],
                      is_logged_in |-> is_logged_in[m],
                      session_start_time |-> session_start_time[m]]
       IN  /\ driver' = [driver EXCEPT ![m] = r.driver]
           /\ is_logged_in' = [is_logged_in EXCEPT ![m] = r.is_logged_in]
           /\ session_start_time' = [session_start_time EXCEPT ![m] = r.session_start_time]
           /\ IF r.ret /\ r.driver.exists /\ r.is_logged_in
              THEN /\ mpc' = [mpc EXCEPT ![m] = PcAtDate(1)]
                   /\ dateIdx' = [dateIdx EXCEPT ![m] = 1]
              ELSE /\ mpc' = [mpc EXCEPT ![m] = "sleep"]
                   /\ dateIdx' = [dateIdx EXCEPT ![m] = 0]
    /\ UNCHANGED <<mnow, running, stopCalled, mainPc, cause>>
    /\ UNCHANGED <<trackerSide, bookingVars>>

(* check_slots_for_course for the current date, inside the try *)
CheckDate(m, outcome) ==
    /\ mpc[m] = "date"
    /\ attempts' = [attempts EXCEPT ![m][dateIdx[m]] = @ + 1]
    /\ notified' = [notified EXCEPT ![m] = IF outcome = "slots" THEN @ + 1 ELSE @]
    /\ IF outcome = "timeout"
       THEN mpc' = [mpc EXCEPT ![m] = "refresh"] /\ dateIdx' = dateIdx
       ELSE LET j == IF outcome = "error" THEN after_date_error(dateIdx[m])
                     ELSE dateIdx[m] + 1
            IN  /\ mpc' = [mpc EXCEPT ![m] = PcAtDate(j)]
                /\ dateIdx' = [dateIdx EXCEPT ![m] = j]
    /\ UNCHANGED <<mnow, running, is_logged_in, session_start_time, driver, stopCalled,
                   mainPc, cause>>
    /\ UNCHANGED <<trackerSide, bookingVars>>

(* The handler of a session timeout: refresh_session(), then the retry or the *)
(* error log                                                                  *)
RefreshAfterTimeout(m, outcome) ==
    /\ mpc[m] = "refresh"
    /\ LET r == refresh_session(m, outcome)
           j == after_date_error(dateIdx[m])
       IN  /\ driver' = [driver EXCEPT ![m] = r.driver]
           /\ is_logged_in' = [is_logged_in EXCEPT ![m] = r.is_logged_in]
           /\ session_start_time' = [session_start_time EXCEPT ![m] = r.session_start_time]
           /\ IF r.ret
              THEN mpc' = [mpc EXCEPT ![m] = "retry"] /\ dateIdx' = dateIdx
              ELSE /\ mpc' = [mpc EXCEPT ![m] = PcAtDate(j)]
                   /\ dateIdx' = [dateIdx EXCEPT ![m] = j]
    /\ UNCHANGED <<mnow, running, attempts, notified, stopCalled, mainPc, cause>>
    /\ UNCHANGED <<trackerSide, bookingVars>>

(* The retry of the current date; whatever it raises is logged *)
RetryDate(m, outcome) ==
    /\ mpc[m] = "retry"
    /\ attempts' = [attempts EXCEPT ![m][dateIdx[m]] = @ + 1]
    /\ notified' = [notified EXCEPT ![m] = IF outcome = "slots" THEN @ + 1 ELSE @]
    /\ LET j == after_date_error(dateIdx[m])
       IN  /\ mpc' = [mpc EXCEPT ![m] = PcAtDate(j)]
           /\ dateIdx' = [dateIdx EXCEPT ![m] = j]
    /\ UNCHANGED <<mnow, running, is_logged_in, session_start_time, driver, stopCalled,
                   mainPc, cause>>
    /\ UNCHANGED <<trackerSide, bookingVars>>

(* time_module.sleep(interval_seconds), in the try or in the except clause of *)
(* run_continuous_checking                                                    *)
Sleep(m, step) ==
    /\ mpc[m] = "sleep"
    /\ mnow + step <= MaxClock
    /\ mnow' = mnow + step
    /\ mpc' = [mpc EXCEPT ![m] = "test"]
    /\ UNCHANGED <<running, is_logged_in, session_start_time, driver, dateIdx, attempts,
                   notified, stopCalled, mainPc, cause>>
    /\ UNCHANGED <<trackerSide, bookingVars>>

(* What stop() of each manager in ms leaves in the managers' fields *)
Stopped(ms) ==
    /\ running' = [m \in Managers |-> IF m \in ms THEN FALSE ELSE running[m]]
    /\ driver' = [m \in Managers |->
                    IF m \in ms /\ driver[m].exists THEN [driver[m] EXCEPT !.open = FALSE]
                    ELSE driver[m]]
    /\ stopCalled' = [m \in Managers |-> IF m \in ms THEN TRUE ELSE stopCalled[m]]

(* manager.stop() called from another thread, at any point after the manager  *)
(* was initialised                                                            *)
Stop(m) ==
    /\ mpc[m] \notin {"new", "dropped", "done"}
    /\ ~stopCalled[m]
    /\ Stopped({m})
    /\ UNCHANGED <<mnow, mpc, is_logged_in, session_start_time, dateIdx, attempts,
                   notified, mainPc, cause>>
    /\ UNCHANGED <<trackerSide, bookingVars>>

(* The state of the tracker's side while it is not part of the run *)
InitTrackerUnused ==
    /\ store = EmptyMap
    /\ now = NowStart
    /\ backendUp = TRUE
    /\ marks = EmptyMap
    /\ lastCall = Call("None", "None", 0)
    /\ nTicks = 0
    /\ nMarks = 0
    /\ redisUrl = "redis://store"
    /\ tracker = "None"
    /\ nConstructed = 0
    /\ pc = [w \in Workers |-> "idle"]
    /\ batch = [w \in Workers |-> <<>>]
    /\ idx = [w \in Workers |-> 0]
    /\ newly = [w \in Workers |-> <<>>]
    /\ toSend = [w \in Workers |-> <<>>]
    /\ raised = [w \in Workers |-> "None"]
    /\ marked = [w \in Workers |-> {}]
    /\ sent = [w \in Workers |-> {}]
    /\ nHanded = EmptyMap
    /\ threads = {}
    /\ delivered = {}
    /\ failed = {}
    /\ nCalls = 0

(* One course manager: the other course's driver could not be initialised *)
InitManager ==
    /\ InitTrackerUnused
    /\ InitBookingIdle
    /\ mnow = ClockStart
    /\ mpc = [m \in Managers |-> IF m = "bethpage_black" THEN "new" ELSE "dropped"]
    /\ running = [m \in Managers |-> FALSE]
    /\ is_logged_in = [m \in Managers |-> FALSE]
    /\ session_start_time = [m \in Managers |-> 0]
    /\ driver = [m \in Managers |-> NoDriver]
    /\ dateIdx = [m \in Managers |-> 0]
    /\ attempts = [m \in Managers |-> [d \in 1..Len(Dates) |-> 0]]
    /\ notified = [m \in Managers |-> 0]
    /\ stopCalled = [m \in Managers |-> FALSE]
    /\ mainPc = "init"
    /\ cause = "None"

(* A step of the manager's thread *)
ManagerStep(m) ==
    \/ RunStart(m)
    \/ LoopTest(m)
    \/ \E o \in DriverOutcomes : CycleStart(m, o)
    \/ \E o \in CheckOutcomes : CheckDate(m, o)
    \/ \E o \in DriverOutcomes : RefreshAfterTimeout(m, o)
    \/ \E o \in CheckOutcomes : RetryDate(m, o)
    \/ \E step \in SleepSteps : Sleep(m, step)

(* A step of the main thread up to the submission of the managers *)
MainStart ==
    \/ \E m \in Managers, o \in DriverOutcomes : InitializeDriver(m, o)
    \/ MainSubmit

NextManager ==
    \/ MainStart
    \/ \E m \in Managers : ManagerStep(m)
    \/ \E m \in Managers : Stop(m)

SpecManager == InitManager /\ [][NextManager]_vars

(* The main thread and each manager's thread keep running when they can *)
SpecManagerFair ==
    /\ SpecManager
    /\ WF_vars(MainStart)
    /\ \A m \in Managers : WF_vars(ManagerStep(m))

(* The managers run_browsers_for_all_courses appended to course_managers *)
course_managers == {m \in Managers : mpc[m] \notin {"new", "dropped"}}

(* The managers whose run_continuous_checking was submitted to the pool *)
Submitted == {m \in Managers : mpc[m] \notin {"new", "dropped", "ready"}}

(* A KeyboardInterrupt, or another exception, raised in the main thread: in   *)
(* the loop that initialises the managers it reaches the except clauses at    *)
(* once, inside the with block it first leaves the block                      *)
Interrupt(c) ==
    /\ mainPc \in {"init", "wait"}
    /\ cause = "None"
    /\ cause' = c
    /\ mainPc' = IF mainPc = "init" THEN "except" ELSE "exit_with"
    /\ UNCHANGED <<mnow, mpc, running, is_logged_in, session_start_time, driver, dateIdx,
                   attempts, notified, stopCalled>>
    /\ UNCHANGED <<trackerSide, bookingVars>>

(* as_completed yielded every future: the with block is left normally *)
AllCompleted ==
    /\ mainPc = "wait"
    /\ \A m \in Submitted : mpc[m] = "done"
    /\ mainPc' = "finally"
    /\ UNCHANGED <<mnow, mpc, running, is_logged_in, session_start_time, driver, dateIdx,
                   attempts, notified, stopCalled, cause>>
    /\ UNCHANGED <<trackerSide, bookingVars>>

(* ThreadPoolExecutor.__exit__: shutdown(wait=True) joins every pool thread,  *)
(* then the exception goes on to the except clauses                           *)
ExitWith ==
    /\ mainPc = "exit_with"
    /\ \A m \in Submitted : mpc[m] = "done"
    /\ mainPc' = "except"
    /\ UNCHANGED <<mnow, mpc, running, is_logged_in, session_start_time, driver, dateIdx,
                   attempts, notified, stopCalled, cause>>
    /\ UNCHANGED <<trackerSide, bookingVars>>

(* A further KeyboardInterrupt while shutdown(wait=True) is joining: it ends  *)
(* the join and reaches the except clause                                     *)
InterruptJoin ==
    /\ mainPc = "exit_with"
    /\ cause' = "KeyboardInterrupt"
    /\ mainPc' = "except"
    /\ UNCHANGED <<mnow, mpc, running, is_logged_in, session_start_time, driver, dateIdx,
                   attempts, notified, stopCalled>>
    /\ UNCHANGED <<trackerSide, bookingVars>>

(* except KeyboardInterrupt / except Exception: manager.stop() for every      *)
(* manager of course_managers                                                 *)
Handler ==
    /\ mainPc = "except"
    /\ Stopped(course_managers)
    /\ mainPc' = "finally"
    /\ UNCHANGED <<mnow, mpc, is_logged_in, session_start_time, dateIdx, attempts,
                   notified, cause>>
    /\ UNCHANGED <<trackerSide, bookingVars>>

(* finally: manager.stop() for every manager that is still running; the       *)
(* function returns                                                           *)
Finally ==
    /\ mainPc = "finally"
    /\ Stopped({m \in course_managers : running[m]})
    /\ mainPc' = "returned"
    /\ UNCHANGED <<mnow, mpc, is_logged_in, session_start_time, dateIdx, attempts,
                   notified, cause>>
    /\ UNCHANGED <<trackerSide, bookingVars>>

(* What the main thread does by itself *)
MainStep ==
    \/ MainStart
    \/ AllCompleted
    \/ ExitWith
    \/ Handler
    \/ Finally

(* run_browsers_for_all_courses is called with both courses *)
InitRun ==
    /\ InitTrackerUnused
    /\ InitBookingIdle
    /\ InitManagersNew

(* A step of a pool thread in a run whose logins succeed: a check finds       *)
(* nothing or times out, a retry finds nothing, the interval is 0 or 301      *)
(* seconds                                                                    *)
RunStep(m) ==
    \/ RunStart(m)
    \/ LoopTest(m)
    \/ \E o \in {"ok", "create_failed"} : CycleStart(m, o)
    \/ \E o \in {"none", "timeout"} : CheckDate(m, o)
    \/ RefreshAfterTimeout(m, "ok")
    \/ RetryDate(m, "none")
    \/ \E step \in {0, 301} : Sleep(m, step)

NextRun ==
    \/ MainStep
    \/ \E c \in {"KeyboardInterrupt", "Exception"} : Interrupt(c)
    \/ InterruptJoin
    \/ \E m \in Managers : RunStep(m)
    \/ \E m \in Managers : Stop(m)

(* The main thread and the pool threads keep running when they can; nothing   *)
(* obliges a further interrupt to arrive, or another caller to stop a manager *)
SpecRun ==
    /\ InitRun
    /\ [][NextRun]_vars
    /\ WF_vars(MainStep)
    /\ \A m \in Managers : WF_vars(RunStep(m))

---------------------------------------------------------------------------
(* Properties of book_reservation *)

(* C27 as stated: at most n_attempts attempts are made, and after an attempt  *)
(* that completed without raising no further attempt is started.              *)
C27_AsClaimed ==
    /\ attempt <= n_attempts
    /\ \A i \in 1..Len(outcomes) : outcomes[i] = "ok" => attempt = i

(* C28 as stated: book_reservation raises if and only if every one of its     *)
(* n_attempts attempts failed.                                                *)
C28_AsClaimed ==
    /\ bpc = "raised" =>
          (Len(outcomes) = n_attempts /\ \A i \in 1..Len(outcomes) : outcomes[i] = "failed")
    /\ bpc = "returned" => \E i \in 1..Len(outcomes) : outcomes[i] = "ok"

(* C29: every WebDriver created in an attempt is quit before the next attempt *)
(* starts and before the function returns or raises; at most one is open at   *)
(* any time.                                                                  *)
C29_BrowserClosedAfterEachAttempt ==
    /\ Cardinality(openDrivers) <= 1
    /\ bpc \in {"loop", "try", "returned", "raised"} => openDrivers = {}
    /\ openDrivers \subseteq {bookDriver}

(* The second attempt opened a browser, failed, and the function has raised   *)
(* with no browser left open                                                  *)
C29_Witness ==
    /\ bpc = "raised"
    /\ attempt = 2
    /\ bookDriver = 2
    /\ outcomes = <<"failed", "failed">>
    /\ openDrivers = {}

(* C30 as stated: within one attempt at most one slot is booked, and after    *)
(* the first confirmed slot no further slot is clicked.                       *)
C30_AsClaimed ==
    /\ Cardinality(confirmed) <= 1
    /\ \A i \in confirmed : \A j \in 1..Len(clicked) : clicked[j] <= i

---------------------------------------------------------------------------
(* Properties of CourseManager *)

(* The session is older than the 300 seconds the claim names, or has no start *)
(* time recorded                                                              *)
SessionDue(m) ==
    \/ session_start_time[m] = 0
    \/ mnow - session_start_time[m] > 300

(* The manager's thread passes from the start of a cycle to what follows it *)
CycleStarted(m) == mpc[m] = "cycle" /\ mpc'[m] # "cycle"

(* C22: check_course_availability refreshes the session at the start of a     *)
(* cycle exactly when no session start time is recorded or the session is     *)
(* older than 300 seconds: a session that is due gets a new open driver and   *)
(* the current time as its start time, or the refresh fails and the cycle     *)
(* ends before any date is checked and any notification is sent; a session    *)
(* that is not due keeps its driver and its start time.                       *)
C22_RefreshExactlyWhenDue ==
    [][\A m \in Managers :
         CycleStarted(m) =>
           IF SessionDue(m)
           THEN \/ /\ session_start_time'[m] = mnow
                   /\ driver'[m].exists /\ driver'[m].open
                \/ /\ session_start_time'[m] = session_start_time[m]
                   /\ mpc'[m] = "sleep"
                   /\ \A d \in 1..Len(Dates) : attempts'[m][d] = 0
                   /\ notified'[m] = 0
           ELSE /\ driver'[m] = driver[m]
                /\ session_start_time'[m] = session_start_time[m]]_vars

(* C22 witness: a session older than 300 seconds whose refresh failed at the  *)
(* start of the cycle, which then went to sleep with no date checked          *)
C22_Witness ==
    \E m \in Managers :
        /\ mpc[m] = "sleep"
        /\ dateIdx[m] = 0
        /\ session_start_time[m] # 0
        /\ mnow - session_start_time[m] > 300
        /\ \A d \in 1..Len(Dates) : attempts[m][d] = 0

(* C23: in one cycle of check_course_availability every configured date is    *)
(* attempted, whatever the checks of the earlier dates raised: a date is      *)
(* attempted once, and once more at most after a session timeout followed by  *)
(* a successful refresh; when the loop over the dates has ended, no date is   *)
(* left unattempted.                                                          *)
C23_EveryDateAttempted ==
    \A m \in Managers :
        /\ \A d \in 1..Len(Dates) : attempts[m][d] <= 2
        /\ mpc[m] \in {"date", "refresh", "retry"} =>
              \A d \in 1..Len(Dates) : d < dateIdx[m] => attempts[m][d] >= 1
        /\ mpc[m] \in {"refresh", "retry"} => attempts[m][dateIdx[m]] = 1
        /\ (mpc[m] = "sleep" /\ dateIdx[m] > 0) =>
              \A d \in 1..Len(Dates) : attempts[m][d] >= 1

(* C23 witness: a cycle has ended in which the first date timed out and was   *)
(* retried after the refresh, and the later date was attempted as well        *)
C23_Witness ==
    \E m \in Managers :
        /\ mpc[m] = "sleep"
        /\ dateIdx[m] > 0
        /\ attempts[m][1] = 2
        /\ attempts[m][Len(Dates)] >= 1

(* C24: is_logged_in is true only if the most recent login attempt on the     *)
(* manager's current driver succeeded, and no date is checked on a session    *)
(* whose login failed.                                                        *)
C24_AsClaimed ==
    \A m \in Managers :
        /\ is_logged_in[m] => driver[m].logged
        /\ mpc[m] \in {"date", "retry"} => driver[m].logged

(* C25: once stop() has been called on a manager, at whatever point relative  *)
(* to the start of run_continuous_checking, the loop eventually exits.        *)
C25_AsClaimed ==
    \A m \in Managers : stopCalled[m] ~> (mpc[m] = "done")

---------------------------------------------------------------------------
(* Properties of run_browsers_for_all_courses *)

(* C26: after an interrupt signal or an error in the main loop, every course  *)
(* manager is eventually stopped (running is false and its driver is quit)    *)
(* and the function returns.                                                  *)
C26_AsClaimed ==
    (cause # "None") ~>
        /\ mainPc = "returned"
        /\ \A m \in course_managers : ~running[m] /\ ~driver[m].open

===========================================================================
